---- MODULE Spec2Model ----
(***************************************************************************)
(* Model of junixsocket-native/src/main/c/reflection.c: the JNI functions  *)
(* initServerImpl, setPort and currentRMISocket, run by several Java       *)
(* threads.  Each JNI call made by a function is one step of the calling   *)
(* thread.  The JNI environment of a thread carries one pending exception: *)
(* GetFieldID, GetStaticFieldID, GetMethodID and FindClass return NULL     *)
(* *and* leave an exception pending when the lookup fails; an exception    *)
(* still pending when the native function returns is thrown in the Java    *)
(* caller.                                                                 *)
(***************************************************************************)
EXTENDS Integers, FiniteSets, Sequences, TLC

\* ---------------------------------------------------------------- bounds
NumThreads == 2
NumServerSockets == 2
NumImpls == 2
NumAddrs == 1
MaxPort == 2
NumHandlers == 2

Threads == 1..NumThreads
ServerSockets == 1..NumServerSockets
Impls == 1..NumImpls
Addrs == 1..NumAddrs
Ports == 1..MaxPort
Handlers == 1..NumHandlers

\* the null reference / the NULL jfieldID, jmethodID, jclass
NULL == 0

\* ------------------------------------------------- JNI pending exception
NoException == [cls |-> "none", msg |-> ""]

NoSuchFieldError(name) == [cls |-> "java.lang.NoSuchFieldError", msg |-> name]

NoSuchMethodError(name) == [cls |-> "java.lang.NoSuchMethodError", msg |-> name]

NoClassDefFoundError(name) == [cls |-> "java.lang.NoClassDefFoundError", msg |-> name]

kExceptionSocketException == "java.net.SocketException"

PortFieldMessage == "Cannot find field \"port\" in java.net.InetSocketAddress. Unsupported JVM?"

VARIABLES
  pc,                      \* position of each thread
  pending,                 \* pending exception of each thread's JNIEnv
  doSetServerSocket,       \* the static flag
  implHasServerSocketField,\* runtime layout: SocketImpl has a field serverSocket
  implOf,                  \* field impl of each server socket
  serverSocketOf,          \* field serverSocket of each impl (when the class has it)
  serverSocket, impl,      \* arguments of initServerImpl, per thread
  setResult,               \* value returned by setObjectFieldValueIfPossible
  addrHasHolder,           \* runtime layout: InetSocketAddress has a field holder
  holderHasPort,           \* runtime layout: the holder class has an int field port
  addrHasPort,             \* runtime layout: InetSocketAddress has an int field port
  intField,                \* the int field port of each address / holder object
  addr, port,              \* arguments of setPort, per thread
  holderField, portField, fieldObject, \* locals of setPort
  tcpTransportPresent,     \* runtime layout: class TCPTransport can be found
  tchFieldPresent,         \* runtime layout: static field threadConnectionHandler
  threadLocalObj,          \* value of that static field (NULL or the ThreadLocal)
  tlHasGet,                \* runtime layout: the thread-local has a method get
  handlerOf,               \* what the thread-local binds to each thread
  handlerHasSocket,        \* runtime layout: the handler has a field socket
  socketOf,                \* field socket of each connection handler
  tl, connHandler, retval  \* locals / return value of currentRMISocket

vars == <<pc, pending, doSetServerSocket, implHasServerSocketField, implOf,
          serverSocketOf, serverSocket, impl, setResult, addrHasHolder,
          holderHasPort, addrHasPort, intField, addr, port, holderField,
          portField, fieldObject, tcpTransportPresent, tchFieldPresent,
          threadLocalObj, tlHasGet, handlerOf, handlerHasSocket, socketOf,
          tl, connHandler, retval>>

initVars == <<doSetServerSocket, implHasServerSocketField, implOf,
              serverSocketOf, serverSocket, impl, setResult>>

portVars == <<addrHasHolder, holderHasPort, addrHasPort, intField, addr, port,
              holderField, portField, fieldObject>>

rmiVars == <<tcpTransportPresent, tchFieldPresent, threadLocalObj, tlHasGet,
             handlerOf, handlerHasSocket, socketOf, tl, connHandler, retval>>

\* ------------------------------------------------------------ JNI lookups
\* The outcomes of GetFieldID / GetStaticFieldID for a field that is or is
\* not present.  Called with no exception pending: the id, or NULL with
\* NoSuchFieldError pending.  Called while an exception is pending (which
\* JNI does not permit): either the lookup runs as usual and the older
\* exception stays pending, or the call gives up and returns NULL.
GetFieldID(present, name, pend) ==
  IF pend = NoException
  THEN IF present
       THEN {[id |-> name, exc |-> NoException]}
       ELSE {[id |-> "NULL", exc |-> NoSuchFieldError(name)]}
  ELSE {[id |-> IF present THEN name ELSE "NULL", exc |-> pend],
        [id |-> "NULL", exc |-> pend]}

\* FindClass: the class, or NULL with NoClassDefFoundError pending.
FindClass(present, name) ==
  IF present
  THEN [cls |-> name, exc |-> NoException]
  ELSE [cls |-> "NULL", exc |-> NoClassDefFoundError(name)]

\* GetMethodID: the id, or NULL with NoSuchMethodError pending.
GetMethodID(present, name) ==
  IF present
  THEN [id |-> name, exc |-> NoException]
  ELSE [id |-> "NULL", exc |-> NoSuchMethodError(name)]

\* ------------------------------------------- helpers of jniutil/exceptions
\* setObjectFieldValue(env, instance, "impl", ..., value): sets the field.
setObjectFieldValue(heap, instance, value) ==
  [heap EXCEPT ![instance] = value]

\* setObjectFieldValueIfPossible: sets the field and returns true when the
\* class has it; otherwise tolerates the failure (nothing is written, no
\* exception stays pending) and returns false.
setObjectFieldValueIfPossible(present, heap, instance, value) ==
  IF present
  THEN [ok |-> TRUE, heap |-> [heap EXCEPT ![instance] = value], exc |-> NoException]
  ELSE [ok |-> FALSE, heap |-> heap, exc |-> NoException]

\* _throwException(env, type, message): raises the typed exception.
ThrowException(type, message) ==
  [cls |-> type, msg |-> message]

\* ------------------------------------------------------------ initServerImpl
InInitCall(t) ==
  pc[t] \in {"init_L38", "init_L40", "init_L40_store", "init_ret"}

\* variant: the write of impl moved under the flag
InitServerImpl_L35_underFlag(t, s, i) ==
  /\ pc[t] = "idle"
  /\ \A u \in Threads : InInitCall(u) => serverSocket[u] # s /\ impl[u] # i
  /\ serverSocket' = [serverSocket EXCEPT ![t] = s]
  /\ impl' = [impl EXCEPT ![t] = i]
  /\ implOf' = IF doSetServerSocket
               THEN setObjectFieldValue(implOf, s, i)
               ELSE implOf
  /\ pc' = [pc EXCEPT ![t] = "init_L38"]
  /\ UNCHANGED <<pending, doSetServerSocket, implHasServerSocketField,
                 serverSocketOf, setResult>>

\* lines 32-36: thread t enters initServerImpl(s, i) and sets s.impl.
\* Java calls initServerImpl(this, implementation) from the constructor of
\* the server socket: calls on one server socket or one impl do not overlap.
InitServerImpl_L35(t, s, i) ==
  /\ pc[t] = "idle"
  /\ \A u \in Threads : InInitCall(u) => serverSocket[u] # s /\ impl[u] # i
  /\ serverSocket' = [serverSocket EXCEPT ![t] = s]
  /\ impl' = [impl EXCEPT ![t] = i]
  /\ implOf' = setObjectFieldValue(implOf, s, i)
  /\ pc' = [pc EXCEPT ![t] = "init_L38"]
  /\ UNCHANGED <<pending, doSetServerSocket, implHasServerSocketField,
                 serverSocketOf, setResult>>

\* variant: the flag is not consulted
InitServerImpl_L38_noFlag(t) ==
  /\ pc[t] = "init_L38"
  /\ pc' = [pc EXCEPT ![t] = "init_L40"]
  /\ UNCHANGED <<pending, doSetServerSocket, implHasServerSocketField, implOf,
                 serverSocketOf, serverSocket, impl, setResult>>

\* variant: the condition is inverted
InitServerImpl_L38_inverted(t) ==
  /\ pc[t] = "init_L38"
  /\ pc' = [pc EXCEPT ![t] = IF ~doSetServerSocket THEN "init_L40" ELSE "init_ret"]
  /\ UNCHANGED <<pending, doSetServerSocket, implHasServerSocketField, implOf,
                 serverSocketOf, serverSocket, impl, setResult>>

\* variant: a skipped call re-arms the flag
InitServerImpl_L38_rearm(t) ==
  /\ pc[t] = "init_L38"
  /\ pc' = [pc EXCEPT ![t] = IF doSetServerSocket THEN "init_L40" ELSE "init_ret"]
  /\ doSetServerSocket' = TRUE
  /\ UNCHANGED <<pending, implHasServerSocketField, implOf,
                 serverSocketOf, serverSocket, impl, setResult>>

\* line 38: the read of the flag
InitServerImpl_L38(t) ==
  /\ pc[t] = "init_L38"
  /\ pc' = [pc EXCEPT ![t] = IF doSetServerSocket THEN "init_L40" ELSE "init_ret"]
  /\ UNCHANGED <<pending, doSetServerSocket, implHasServerSocketField, implOf,
                 serverSocketOf, serverSocket, impl, setResult>>

\* variant: the failed lookup is not tolerated (its exception stays pending)
InitServerImpl_L40_noClear(t) ==
  /\ pc[t] = "init_L40"
  /\ LET r == setObjectFieldValueIfPossible(implHasServerSocketField,
                                            serverSocketOf, impl[t], serverSocket[t])
     IN /\ serverSocketOf' = r.heap
        /\ pending' = [pending EXCEPT ![t] =
                         IF r.ok THEN r.exc ELSE NoSuchFieldError("serverSocket")]
        /\ setResult' = [setResult EXCEPT ![t] = IF r.ok THEN "true" ELSE "false"]
  /\ pc' = [pc EXCEPT ![t] = "init_L40_store"]
  /\ UNCHANGED <<doSetServerSocket, implHasServerSocketField, implOf,
                 serverSocket, impl>>

\* lines 40-41: the call of setObjectFieldValueIfPossible
InitServerImpl_L40(t) ==
  /\ pc[t] = "init_L40"
  /\ LET r == setObjectFieldValueIfPossible(implHasServerSocketField,
                                            serverSocketOf, impl[t], serverSocket[t])
     IN /\ serverSocketOf' = r.heap
        /\ pending' = [pending EXCEPT ![t] = r.exc]
        /\ setResult' = [setResult EXCEPT ![t] = IF r.ok THEN "true" ELSE "false"]
  /\ pc' = [pc EXCEPT ![t] = "init_L40_store"]
  /\ UNCHANGED <<doSetServerSocket, implHasServerSocketField, implOf,
                 serverSocket, impl>>

\* line 40: the store of the returned value into the flag
InitServerImpl_L40_store(t) ==
  /\ pc[t] = "init_L40_store"
  /\ doSetServerSocket' = (setResult[t] = "true")
  /\ pc' = [pc EXCEPT ![t] = "init_ret"]
  /\ UNCHANGED <<pending, implHasServerSocketField, implOf, serverSocketOf,
                 serverSocket, impl, setResult>>

\* line 43: the function returns; a pending exception goes to the caller
InitServerImpl_Return(t) ==
  /\ pc[t] = "init_ret"
  /\ pc' = [pc EXCEPT ![t] = "idle"]
  /\ pending' = [pending EXCEPT ![t] = NoException]
  /\ serverSocket' = [serverSocket EXCEPT ![t] = NULL]
  /\ impl' = [impl EXCEPT ![t] = NULL]
  /\ setResult' = [setResult EXCEPT ![t] = "unset"]
  /\ UNCHANGED <<doSetServerSocket, implHasServerSocketField, implOf, serverSocketOf>>

\* ------------------------------------------------------------------- setPort
InSetPortCall(t) ==
  pc[t] \in {"port_L58", "port_L60", "port_L67", "port_L72", "port_ret"}

\* Java calls setPort(this, port) on the address it is constructing: calls
\* on one address do not overlap.
SetPort_Call(t, a, p) ==
  /\ pc[t] = "idle"
  /\ \A u \in Threads : InSetPortCall(u) => addr[u] # a
  /\ pc' = [pc EXCEPT ![t] = "port_L58"]
  /\ addr' = [addr EXCEPT ![t] = a]
  /\ port' = [port EXCEPT ![t] = p]
  /\ fieldObject' = [fieldObject EXCEPT ![t] = <<"addr", a>>]
  /\ UNCHANGED <<pending, addrHasHolder, holderHasPort, addrHasPort, intField,
                 holderField, portField>>

\* lines 58-59: GetFieldID(class of addr, "holder")
SetPort_L58(t) ==
  /\ pc[t] = "port_L58"
  /\ \E o \in GetFieldID(addrHasHolder, "holder", pending[t]) :
       /\ holderField' = [holderField EXCEPT ![t] = o.id]
       /\ pending' = [pending EXCEPT ![t] = o.exc]
  /\ pc' = [pc EXCEPT ![t] = "port_L60"]
  /\ UNCHANGED <<addrHasHolder, holderHasPort, addrHasPort, intField, addr,
                 port, portField, fieldObject>>

\* lines 60-66: look "port" up in the holder's class or in the address's
SetPort_L60(t) ==
  /\ pc[t] = "port_L60"
  /\ IF holderField[t] # "NULL"
     THEN /\ fieldObject' = [fieldObject EXCEPT ![t] = <<"holder", addr[t]>>]
          /\ \E o \in GetFieldID(holderHasPort, "port", pending[t]) :
               /\ portField' = [portField EXCEPT ![t] = o.id]
               /\ pending' = [pending EXCEPT ![t] = o.exc]
     ELSE /\ fieldObject' = fieldObject
          /\ \E o \in GetFieldID(addrHasPort, "port", pending[t]) :
               /\ portField' = [portField EXCEPT ![t] = o.id]
               /\ pending' = [pending EXCEPT ![t] = o.exc]
  /\ pc' = [pc EXCEPT ![t] = "port_L67"]
  /\ UNCHANGED <<addrHasHolder, holderHasPort, addrHasPort, intField, addr,
                 port, holderField>>

\* variant: the error is raised but the function does not return
SetPort_L67_noReturn(t) ==
  /\ pc[t] = "port_L67"
  /\ IF portField[t] = "NULL"
     THEN pending' = [pending EXCEPT ![t] =
                        ThrowException(kExceptionSocketException, PortFieldMessage)]
     ELSE pending' = pending
  /\ pc' = [pc EXCEPT ![t] = "port_L72"]
  /\ UNCHANGED <<addrHasHolder, holderHasPort, addrHasPort, intField, addr,
                 port, holderField, portField, fieldObject>>

\* lines 67-71: no port field: raise SocketException and return
SetPort_L67(t) ==
  /\ pc[t] = "port_L67"
  /\ IF portField[t] = "NULL"
     THEN /\ pending' = [pending EXCEPT ![t] =
                           ThrowException(kExceptionSocketException, PortFieldMessage)]
          /\ pc' = [pc EXCEPT ![t] = "port_ret"]
     ELSE /\ pending' = pending
          /\ pc' = [pc EXCEPT ![t] = "port_L72"]
  /\ UNCHANGED <<addrHasHolder, holderHasPort, addrHasPort, intField, addr,
                 port, holderField, portField, fieldObject>>

\* line 72: SetIntField(fieldObject, portField, port)
SetPort_L72(t) ==
  /\ pc[t] = "port_L72"
  /\ intField' = [intField EXCEPT ![fieldObject[t]] = port[t]]
  /\ pc' = [pc EXCEPT ![t] = "port_ret"]
  /\ UNCHANGED <<pending, addrHasHolder, holderHasPort, addrHasPort, addr,
                 port, holderField, portField, fieldObject>>

\* line 73: the function returns; a pending exception goes to the caller
SetPort_Return(t) ==
  /\ pc[t] = "port_ret"
  /\ pc' = [pc EXCEPT ![t] = "idle"]
  /\ pending' = [pending EXCEPT ![t] = NoException]
  /\ addr' = [addr EXCEPT ![t] = NULL]
  /\ port' = [port EXCEPT ![t] = 0]
  /\ holderField' = [holderField EXCEPT ![t] = "NULL"]
  /\ portField' = [portField EXCEPT ![t] = "NULL"]
  /\ fieldObject' = [fieldObject EXCEPT ![t] = <<"addr", NULL>>]
  /\ UNCHANGED <<addrHasHolder, holderHasPort, addrHasPort, intField>>

\* ---------------------------------------------------------- currentRMISocket
Rmi_Call(t) ==
  /\ pc[t] = "idle"
  /\ pc' = [pc EXCEPT ![t] = "rmi_L94"]
  /\ UNCHANGED <<pending, rmiVars>>

\* a return of NULL from currentRMISocket
RmiReturnNull(t) ==
  /\ retval' = [retval EXCEPT ![t] = NULL]
  /\ pc' = [pc EXCEPT ![t] = "rmi_ret"]

\* lines 94-98: FindClass("sun/rmi/transport/tcp/TCPTransport")
Rmi_L94(t) ==
  /\ pc[t] = "rmi_L94"
  /\ LET c == FindClass(tcpTransportPresent, "sun/rmi/transport/tcp/TCPTransport")
     IN /\ pending' = [pending EXCEPT ![t] = c.exc]
        /\ IF c.cls = "NULL"
           THEN RmiReturnNull(t)
           ELSE pc' = [pc EXCEPT ![t] = "rmi_L99"] /\ retval' = retval
  /\ UNCHANGED <<tcpTransportPresent, tchFieldPresent, threadLocalObj, tlHasGet,
                 handlerOf, handlerHasSocket, socketOf, tl, connHandler>>

\* lines 99-103: GetStaticFieldID(tcpTransport, "threadConnectionHandler")
Rmi_L99(t) ==
  /\ pc[t] = "rmi_L99"
  /\ \E o \in GetFieldID(tchFieldPresent, "threadConnectionHandler", pending[t]) :
       /\ pending' = [pending EXCEPT ![t] = o.exc]
       /\ IF o.id = "NULL"
          THEN RmiReturnNull(t)
          ELSE pc' = [pc EXCEPT ![t] = "rmi_L104"] /\ retval' = retval
  /\ UNCHANGED <<tcpTransportPresent, tchFieldPresent, threadLocalObj, tlHasGet,
                 handlerOf, handlerHasSocket, socketOf, tl, connHandler>>

\* lines 104-107: GetStaticObjectField
Rmi_L104(t) ==
  /\ pc[t] = "rmi_L104"
  /\ tl' = [tl EXCEPT ![t] = threadLocalObj]
  /\ IF threadLocalObj = NULL
     THEN RmiReturnNull(t)
     ELSE pc' = [pc EXCEPT ![t] = "rmi_L112"] /\ retval' = retval
  /\ UNCHANGED <<pending, tcpTransportPresent, tchFieldPresent, threadLocalObj,
                 tlHasGet, handlerOf, handlerHasSocket, socketOf, connHandler>>

\* lines 108-116: GetObjectClass(tl), GetMethodID(tlClass, "get")
Rmi_L112(t) ==
  /\ pc[t] = "rmi_L112"
  /\ LET m == GetMethodID(tlHasGet, "get")
     IN /\ pending' = [pending EXCEPT ![t] = m.exc]
        /\ IF m.id = "NULL"
           THEN RmiReturnNull(t)
           ELSE pc' = [pc EXCEPT ![t] = "rmi_L117"] /\ retval' = retval
  /\ UNCHANGED <<tcpTransportPresent, tchFieldPresent, threadLocalObj, tlHasGet,
                 handlerOf, handlerHasSocket, socketOf, tl, connHandler>>

\* variant: the handler is looked up process-wide, not for the calling thread
Rmi_L117_shared(t) ==
  /\ pc[t] = "rmi_L117"
  /\ connHandler' = [connHandler EXCEPT ![t] = handlerOf[1]]
  /\ IF handlerOf[1] = NULL
     THEN RmiReturnNull(t)
     ELSE pc' = [pc EXCEPT ![t] = "rmi_L126"] /\ retval' = retval
  /\ UNCHANGED <<pending, tcpTransportPresent, tchFieldPresent, threadLocalObj,
                 tlHasGet, handlerOf, handlerHasSocket, socketOf, tl>>

\* lines 117-121: CallObjectMethod(tl, get): the calling thread's binding
Rmi_L117(t) ==
  /\ pc[t] = "rmi_L117"
  /\ connHandler' = [connHandler EXCEPT ![t] = handlerOf[t]]
  /\ IF handlerOf[t] = NULL
     THEN RmiReturnNull(t)
     ELSE pc' = [pc EXCEPT ![t] = "rmi_L126"] /\ retval' = retval
  /\ UNCHANGED <<pending, tcpTransportPresent, tchFieldPresent, threadLocalObj,
                 tlHasGet, handlerOf, handlerHasSocket, socketOf, tl>>

\* lines 122-130: GetObjectClass(connHandler), GetFieldID(.., "socket")
Rmi_L126(t) ==
  /\ pc[t] = "rmi_L126"
  /\ \E o \in GetFieldID(handlerHasSocket, "socket", pending[t]) :
       /\ pending' = [pending EXCEPT ![t] = o.exc]
       /\ IF o.id = "NULL"
          THEN RmiReturnNull(t)
          ELSE pc' = [pc EXCEPT ![t] = "rmi_L131"] /\ retval' = retval
  /\ UNCHANGED <<tcpTransportPresent, tchFieldPresent, threadLocalObj, tlHasGet,
                 handlerOf, handlerHasSocket, socketOf, tl, connHandler>>

\* lines 131-133: GetObjectField(connHandler, socketField); return socket
Rmi_L131(t) ==
  /\ pc[t] = "rmi_L131"
  /\ retval' = [retval EXCEPT ![t] = socketOf[connHandler[t]]]
  /\ pc' = [pc EXCEPT ![t] = "rmi_ret"]
  /\ UNCHANGED <<pending, tcpTransportPresent, tchFieldPresent, threadLocalObj,
                 tlHasGet, handlerOf, handlerHasSocket, socketOf, tl, connHandler>>

\* the value and a pending exception go to the caller
Rmi_Return(t) ==
  /\ pc[t] = "rmi_ret"
  /\ pc' = [pc EXCEPT ![t] = "idle"]
  /\ pending' = [pending EXCEPT ![t] = NoException]
  /\ tl' = [tl EXCEPT ![t] = NULL]
  /\ connHandler' = [connHandler EXCEPT ![t] = NULL]
  /\ retval' = [retval EXCEPT ![t] = NULL]
  /\ UNCHANGED <<tcpTransportPresent, tchFieldPresent, threadLocalObj, tlHasGet,
                 handlerOf, handlerHasSocket, socketOf>>

\* ------------------------------------------------------------ initial states
InitCommon ==
  /\ pc = [t \in Threads |-> "idle"]
  /\ pending = [t \in Threads |-> NoException]

InitInitIdle ==
  /\ doSetServerSocket = TRUE
  /\ implOf = [s \in ServerSockets |-> NULL]
  /\ serverSocketOf = [i \in Impls |-> NULL]
  /\ serverSocket = [t \in Threads |-> NULL]
  /\ impl = [t \in Threads |-> NULL]
  /\ setResult = [t \in Threads |-> "unset"]

InitPortIdle ==
  /\ intField = [o \in {"addr", "holder"} \X Addrs |-> 0]
  /\ addr = [t \in Threads |-> NULL]
  /\ port = [t \in Threads |-> 0]
  /\ holderField = [t \in Threads |-> "NULL"]
  /\ portField = [t \in Threads |-> "NULL"]
  /\ fieldObject = [t \in Threads |-> <<"addr", NULL>>]

InitRmiIdle ==
  /\ tl = [t \in Threads |-> NULL]
  /\ connHandler = [t \in Threads |-> NULL]
  /\ retval = [t \in Threads |-> NULL]

\* layouts left out of a specification are fixed to the current runtime's
InitPortLayoutFixed ==
  /\ addrHasHolder = TRUE
  /\ holderHasPort = TRUE
  /\ addrHasPort = FALSE

InitRmiLayoutFixed ==
  /\ tcpTransportPresent = TRUE
  /\ tchFieldPresent = TRUE
  /\ threadLocalObj = 1
  /\ tlHasGet = TRUE
  /\ handlerHasSocket = TRUE
  /\ handlerOf = [t \in Threads |-> NULL]
  /\ socketOf = [h \in Handlers |-> NULL]

\* ------------------------------------------- specification: initServerImpl
InitOfInit ==
  /\ InitCommon
  /\ InitInitIdle
  /\ implHasServerSocketField \in BOOLEAN
  /\ InitPortIdle /\ InitPortLayoutFixed
  /\ InitRmiIdle /\ InitRmiLayoutFixed

NextInit ==
  \E t \in Threads :
    \/ \E s \in ServerSockets, i \in Impls :
         InitServerImpl_L35(t, s, i) /\ UNCHANGED <<portVars, rmiVars>>
    \/ InitServerImpl_L38(t) /\ UNCHANGED <<portVars, rmiVars>>
    \/ InitServerImpl_L40(t) /\ UNCHANGED <<portVars, rmiVars>>
    \/ InitServerImpl_L40_store(t) /\ UNCHANGED <<portVars, rmiVars>>
    \/ InitServerImpl_Return(t) /\ UNCHANGED <<portVars, rmiVars>>

SpecInit == InitOfInit /\ [][NextInit]_vars

InitInitLayoutFixed ==
  implHasServerSocketField = FALSE

\* -------------------------------------------------- specification: setPort
InitOfPort ==
  /\ InitCommon
  /\ InitPortIdle
  /\ addrHasHolder \in BOOLEAN
  /\ holderHasPort \in BOOLEAN
  /\ addrHasPort \in BOOLEAN
  /\ InitInitIdle /\ InitInitLayoutFixed
  /\ InitRmiIdle /\ InitRmiLayoutFixed

NextPort ==
  \E t \in Threads :
    \/ \E a \in Addrs, p \in Ports :
         SetPort_Call(t, a, p) /\ UNCHANGED <<initVars, rmiVars>>
    \/ SetPort_L58(t) /\ UNCHANGED <<initVars, rmiVars>>
    \/ SetPort_L60(t) /\ UNCHANGED <<initVars, rmiVars>>
    \/ SetPort_L67(t) /\ UNCHANGED <<initVars, rmiVars>>
    \/ SetPort_L72(t) /\ UNCHANGED <<initVars, rmiVars>>
    \/ SetPort_Return(t) /\ UNCHANGED <<initVars, rmiVars>>

SpecPort == InitOfPort /\ [][NextPort]_vars

\* ----------------------------------------- specification: currentRMISocket
\* Each connection handler is created for one accepted socket: handlers have
\* sockets of their own, never null.  Sockets are numbered after Handlers.
SocketOfHandler(h) ==
  NumHandlers + h

\* A static field exists only in a class that exists, and holds an object
\* only when it exists.
InitOfRmi ==
  /\ InitCommon
  /\ InitRmiIdle
  /\ tcpTransportPresent \in BOOLEAN
  /\ tchFieldPresent \in BOOLEAN
  /\ tchFieldPresent => tcpTransportPresent
  /\ threadLocalObj \in {NULL, 1}
  /\ threadLocalObj # NULL => tchFieldPresent
  /\ tlHasGet \in BOOLEAN
  /\ handlerHasSocket \in BOOLEAN
  /\ handlerOf \in [Threads -> Handlers \cup {NULL}]
  /\ socketOf = [h \in Handlers |-> SocketOfHandler(h)]
  /\ InitInitIdle /\ InitInitLayoutFixed
  /\ InitPortIdle /\ InitPortLayoutFixed

NextRmi ==
  \E t \in Threads :
    \/ Rmi_Call(t) /\ UNCHANGED <<initVars, portVars>>
    \/ Rmi_L94(t) /\ UNCHANGED <<initVars, portVars>>
    \/ Rmi_L99(t) /\ UNCHANGED <<initVars, portVars>>
    \/ Rmi_L104(t) /\ UNCHANGED <<initVars, portVars>>
    \/ Rmi_L112(t) /\ UNCHANGED <<initVars, portVars>>
    \/ Rmi_L117(t) /\ UNCHANGED <<initVars, portVars>>
    \/ Rmi_L126(t) /\ UNCHANGED <<initVars, portVars>>
    \/ Rmi_L131(t) /\ UNCHANGED <<initVars, portVars>>
    \/ Rmi_Return(t) /\ UNCHANGED <<initVars, portVars>>

SpecRmi == InitOfRmi /\ [][NextRmi]_vars

\* ------------------------------------------------- properties: initServerImpl
\* C1: every completed call initServerImpl(serverSocket, impl) has left the
\* field impl of serverSocket equal to the impl passed in, whatever the flag
\* was and whether or not the back-reference could be set.
C1_ImplFieldSet ==
  \A t \in Threads :
    pc[t] = "init_ret" => implOf[serverSocket[t]] = impl[t]

\* a call that found the flag already false has completed
C1_Witness ==
  \E t \in Threads :
    /\ pc[t] = "init_ret"
    /\ setResult[t] = "unset"
    /\ ~doSetServerSocket
    /\ implOf[serverSocket[t]] = impl[t]

C3_MissingBackRefTolerated ==
  \A t \in Threads :
    (pc[t] = "init_ret" /\ ~implHasServerSocketField) =>
      /\ pending[t] = NoException
      /\ implOf[serverSocket[t]] = impl[t]
      /\ ~doSetServerSocket
      /\ \A i \in Impls : serverSocketOf[i] = NULL

\* a call that made the failing attempt itself has completed
C3_Witness ==
  \E t \in Threads :
    /\ pc[t] = "init_ret"
    /\ ~implHasServerSocketField
    /\ setResult[t] = "false"

\* C8 as stated: the functions keep no state between calls, so no step of a
\* call changes the static flag.
C8_Original ==
  [][doSetServerSocket' = doSetServerSocket]_vars

\* C8 amended: the flag is state shared between calls, but what a completed
\* call has written to the objects passed in depends on the arguments and
\* the field layout only: impl always, the back-reference exactly when the
\* class has the field.
C8_EffectByLayout ==
  \A t \in Threads :
    pc[t] = "init_ret" =>
      /\ implOf[serverSocket[t]] = impl[t]
      /\ serverSocketOf[impl[t]] =
           IF implHasServerSocketField THEN serverSocket[t] ELSE NULL

\* completed calls in both layouts' interesting cases: an attempt that set
\* the back-reference
C8_Witness ==
  \E t \in Threads :
    /\ pc[t] = "init_ret"
    /\ implHasServerSocketField
    /\ setResult[t] = "true"
    /\ serverSocketOf[impl[t]] = serverSocket[t]

\* C9: the flag is monotone under every interleaving: once false it is
\* never true again.
C9_FlagMonotone ==
  [][~doSetServerSocket => ~doSetServerSocket']_vars

\* a call that read the flag before the failure was recorded is about to
\* store its own result while the flag is already false
C9_Witness ==
  /\ ~doSetServerSocket
  /\ \E t \in Threads : pc[t] = "init_L40_store"

\* -------------------------------------------------------- properties: setPort
\* C4: at the end of setPort(addr, port) the port field located by the
\* layout holds port: the holder's when addr has a holder field, addr's own
\* when it has none.
C4_AsStated ==
  \A t \in Threads :
    pc[t] = "port_ret" =>
      /\ (addrHasHolder /\ holderHasPort) => intField[<<"holder", addr[t]>>] = port[t]
      /\ (~addrHasHolder /\ addrHasPort) => intField[<<"addr", addr[t]>>] = port[t]

\* C5: when neither layout has a port field, setPort ends with the
\* SocketException 'Cannot find field "port" ...' raised and with the port
\* fields of addr and of its holder as they were (never written).
C5_NoLayoutRaises ==
  \A t \in Threads :
    (pc[t] = "port_ret" /\ ~addrHasPort /\ ~(addrHasHolder /\ holderHasPort)) =>
      /\ pending[t] = [cls |-> "java.net.SocketException", msg |-> PortFieldMessage]
      /\ intField[<<"addr", addr[t]>>] = 0
      /\ intField[<<"holder", addr[t]>>] = 0

\* a call has ended in a runtime whose address has a holder without port
C5_Witness ==
  \E t \in Threads :
    /\ pc[t] = "port_ret"
    /\ addrHasHolder /\ ~holderHasPort /\ ~addrHasPort
    /\ pending[t].cls = "java.net.SocketException"
    /\ port[t] # 0

\* C10: whenever a port field exists, on the address or inside its holder,
\* setPort ends without an exception and with such a field set to port.
C10_AsStated ==
  \A t \in Threads :
    (pc[t] = "port_ret" /\ (addrHasPort \/ (addrHasHolder /\ holderHasPort))) =>
      /\ pending[t] = NoException
      /\ \/ addrHasHolder /\ holderHasPort /\ intField[<<"holder", addr[t]>>] = port[t]
         \/ addrHasPort /\ intField[<<"addr", addr[t]>>] = port[t]

\* ----------------------------------------------- properties: currentRMISocket
\* every step of the chain is present for thread t
ChainComplete(t) ==
  /\ tcpTransportPresent
  /\ tchFieldPresent
  /\ threadLocalObj # NULL
  /\ tlHasGet
  /\ handlerOf[t] # NULL
  /\ handlerHasSocket

\* C6: when a step of the chain is missing, currentRMISocket ends with NULL
\* as its value and with no exception for the caller.
C6_AsStated ==
  \A t \in Threads :
    (pc[t] = "rmi_ret" /\ ~ChainComplete(t)) =>
      /\ retval[t] = NULL
      /\ pending[t] = NoException

\* C7: when every step is present, a call on thread t ends with the socket
\* field of the handler bound to t as its value and no exception, whatever
\* the other threads are doing; and no step changes an object.
C7_ReturnsOwnSocket ==
  /\ [](\A t \in Threads :
          (pc[t] = "rmi_ret" /\ ChainComplete(t)) =>
            /\ retval[t] = socketOf[handlerOf[t]]
            /\ pending[t] = NoException)
  /\ [][UNCHANGED <<threadLocalObj, handlerOf, socketOf>>]_vars

\* two threads bound to different handlers with different sockets are both
\* at the end of a call
C7_Witness ==
  \E t, u \in Threads :
    /\ pc[t] = "rmi_ret" /\ pc[u] = "rmi_ret"
    /\ ChainComplete(t) /\ ChainComplete(u)
    /\ handlerOf[t] # handlerOf[u]
    /\ retval[t] # retval[u]
    /\ retval[t] # NULL /\ retval[u] # NULL

====
